---------------------------- MODULE Spec2Model ----------------------------
(***************************************************************************)
(* Model of the christoff metronome: the UserInterface state and its       *)
(* mutators (Interface.hpp), the ncurses input pipe, the NCursesDrawer and *)
(* the NCursesVisual flash timing machine (DrawSystemNcurses.hpp), and the *)
(* driving loop of main (Christoff.cpp).                                   *)
(*                                                                         *)
(* Numbers.  BPM is a C++ float; the model stores it in hundredths of a    *)
(* beat per minute (Scale units per beat), so 120 is 12000 and the clamp   *)
(* floor 0.01f is 1.  Times are milliseconds of std::chrono::steady_clock; *)
(* one DrawFlash invocation reads the clock as a single instant.           *)
(* std::size_t values (the fingerprints) are 64 bits wide and are kept as  *)
(* four 16-bit limbs, least significant first, so that the arithmetic      *)
(* modulo 2^64 of UserInterface::hash is computed exactly.                 *)
(***************************************************************************)
EXTENDS Integers, Sequences, FiniteSets, TLC

VARIABLES
    UI,       \* MainWindow::m_UI, the UserInterface fields
    VOut,     \* the NCursesVisual owned by the drawer (VisualOutput fields too)
    Drw,      \* NCursesDrawer: UI_Hash, ForceRedraw, Orientation, m_VOut
    now,      \* std::chrono::steady_clock::now(), in milliseconds
    pc,       \* position of main's loop: "input", "draw", "refresh", "done";
              \* "crashed" after a fault
    Running,  \* main's Running flag
    nKeys,    \* number of key events read so far
    op,       \* history: the operation that produced this state
    hist,     \* history: elapsed times of the DrawFlash calls since the last reset,
              \* while they follow Scenario
    drawn     \* history: the fields at the previous PrintUI / DrawFlash call,
              \* <<>> before it

vars == <<UI, VOut, Drw, now, pc, Running, nKeys, op, hist, drawn>>

---------------------------------------------------------------------------
(* Bounds of the model *)

\* largest BPM (whole beats) the right-arrow key is pressed up to, BPM specification
MaxBPM == 2402
\* the arrow keys move BPM at most this many beats away from 120, field specification
BPMWindow == 3
\* the clock stops advancing here (milliseconds), scenario specification
MaxTime == 1000
\* the clock stops advancing here (milliseconds), timing specification
MaxFlashTime == 450
\* key events of one run of the timing specification
MaxKeys == 2
\* key and resize events of one run of the drawer specification
MaxDrawerKeys == 3

---------------------------------------------------------------------------
(* Program constants *)

\* the model's fixed-point unit of BPM: hundredths
Scale == 100

FlashInterval == 64

MaxVisualizations == 10
MaxColors == 7
NumberOfLabels == 5

\* UserInterface::Selection
TIMESIGNATURE == 0
BEATSPERMIN == 1
COLORSEL == 2
VISUALIZATION == 3
FLASHING == 4

\* enum class Visualization : unsigned char, Pendulum = 0 .. FlashOnly = 9
Visualization == 0 .. 9

\* key codes of ncurses as the input pipe compares them
ERR == -1
KEY_DOWN == 258
KEY_UP == 259
KEY_LEFT == 260
KEY_RIGHT == 261
KEY_ENTER == 343
KEY_RESIZE == 410
NEWLINE == 10
KEY_Q == 113
KEY_OTHER == 97

Keys == {ERR, KEY_DOWN, KEY_UP, KEY_LEFT, KEY_RIGHT, KEY_ENTER, NEWLINE,
         KEY_RESIZE, KEY_Q, KEY_OTHER}

\* the char direction arguments the mutators are called with
Directions == {-128, -1, 0, 1, 127}

\* SetBPM arguments, in hundredths: -1, 0, 0.5, 1.5, 30, 350, 400
SetBPMInputs == {-100, 0, 50, 150, 3000, 35000, 40000}

Min(a, b) == IF a < b THEN a ELSE b
Max(a, b) == IF a < b THEN b ELSE a
B2I(b) == IF b THEN 1 ELSE 0

---------------------------------------------------------------------------
(* UserInterface (Interface.hpp) *)

\* a label: the text written before the numbers, the numbers in the order
\* they are written, the word written after them
EmptyLabel == [text |-> "", num |-> <<>>, word |-> ""]

UI_Init ==
    [Labels |-> [i \in 1 .. NumberOfLabels |-> EmptyLabel],
     CurrentSelection |-> 0, BPM |-> 120 * Scale, Color |-> 0,
     Signature_Upper |-> 4, Signature_Lower |-> 4,
     VisualizationType |-> 0, Flashing |-> FALSE]

\* the seven fields the user sets, without the label cache
Fields(ui) ==
    [CurrentSelection |-> ui.CurrentSelection, BPM |-> ui.BPM,
     Color |-> ui.Color, Signature_Upper |-> ui.Signature_Upper,
     Signature_Lower |-> ui.Signature_Lower,
     VisualizationType |-> ui.VisualizationType, Flashing |-> ui.Flashing]

\* MoveSelection that stops at the first and the last field
MoveSelection_NoWrap(ui, direction) ==
    IF direction > 0
    THEN [ui EXCEPT !.CurrentSelection = Min(@ + 1, 4)]
    ELSE IF direction < 0
    THEN [ui EXCEPT !.CurrentSelection = Max(@ - 1, 0)]
    ELSE ui

MoveSelection(ui, direction) ==
    IF direction > 0
    THEN IF ui.CurrentSelection < 4
         THEN [ui EXCEPT !.CurrentSelection = @ + 1]
         ELSE [ui EXCEPT !.CurrentSelection = 0]
    ELSE IF direction < 0
    THEN IF ui.CurrentSelection > 0
         THEN [ui EXCEPT !.CurrentSelection = @ - 1]
         ELSE [ui EXCEPT !.CurrentSelection = 4]
    ELSE ui

\* SetBPM without the lower clamp
SetBPM_NoFloor(ui, newBPM) == [ui EXCEPT !.BPM = Min(newBPM, 350 * Scale)]

\* BPM = std::max(0.01f, std::min(newBPM, 350.0f))
SetBPM(ui, newBPM) == [ui EXCEPT !.BPM = Max(1, Min(newBPM, 350 * Scale))]

\* SetColor without the wrap at MaxColors
SetColor_NoWrap(ui, direction) ==
    IF direction > 0 THEN [ui EXCEPT !.Color = @ + 1]
    ELSE IF direction < 0 THEN [ui EXCEPT !.Color = @ - 1]
    ELSE ui

SetColor(ui, direction) ==
    IF direction > 0
    THEN IF ui.Color < MaxColors
         THEN [ui EXCEPT !.Color = @ + 1]
         ELSE [ui EXCEPT !.Color = 0]
    ELSE IF direction < 0
    THEN IF ui.Color > 0
         THEN [ui EXCEPT !.Color = @ - 1]
         ELSE [ui EXCEPT !.Color = MaxColors]
    ELSE ui

SetSignature(ui, upper, lower) ==
    [ui EXCEPT !.Signature_Upper = upper, !.Signature_Lower = lower]

\* SetVisualization that stops at 0 and at MaxVisualizations
SetVisualization_NoWrap(ui, direction) ==
    IF direction > 0
    THEN [ui EXCEPT !.VisualizationType = Min(@ + 1, MaxVisualizations)]
    ELSE IF direction < 0
    THEN [ui EXCEPT !.VisualizationType = Max(@ - 1, 0)]
    ELSE ui

SetVisualization(ui, direction) ==
    IF direction > 0
    THEN IF ui.VisualizationType < MaxVisualizations
         THEN [ui EXCEPT !.VisualizationType = @ + 1]
         ELSE [ui EXCEPT !.VisualizationType = 0]
    ELSE IF direction < 0
    THEN IF ui.VisualizationType > 0
         THEN [ui EXCEPT !.VisualizationType = @ - 1]
         ELSE [ui EXCEPT !.VisualizationType = MaxVisualizations]
    ELSE ui

ToggleFlashing(ui) == [ui EXCEPT !.Flashing = ~@]

\* Str << std::setprecision(5) << BPM: the value rounded to five significant
\* digits, in hundredths (below 1000 the hundredths are all printed); no
\* modelled BPM lies halfway between two printed values
FormatBPM(b) ==
    IF b < 1000 * Scale THEN b
    ELSE IF b < 10000 * Scale THEN ((b + 5) \div 10) * 10
    ELSE ((b + 50) \div 100) * 100

\* Str.str() of GetLabel(index)
LabelText(ui, index) ==
    CASE index = TIMESIGNATURE ->
            [text |-> "Time signature: ",
             num |-> <<ui.Signature_Upper, ui.Signature_Lower>>, word |-> ""]
      [] index = BEATSPERMIN ->
            [text |-> "Beats Per Minute: ", num |-> <<FormatBPM(ui.BPM)>>,
             word |-> ""]
      [] index = COLORSEL ->
            [text |-> "Color scheme: ", num |-> <<ui.Color>>, word |-> ""]
      [] index = VISUALIZATION ->
            [text |-> "Visualization: ", num |-> <<ui.VisualizationType>>,
             word |-> ""]
      [] index = FLASHING ->
            [text |-> "Flashing: ", num |-> <<>>,
             word |-> IF ui.Flashing THEN "Yes" ELSE "No"]
      [] OTHER -> EmptyLabel

\* the UserInterface after GetLabel(index): Labels[index] = Str.str()
GetLabel(ui, index) ==
    [ui EXCEPT !.Labels[index + 1] = LabelText(ui, index)]

---------------------------------------------------------------------------
(* UserInterface::hash: 64-bit arithmetic on four 16-bit limbs *)

Limb == 65536

\* std::size_t hash = 99194853094755497
HashSeed == <<36009, 32322, 26929, 352>>

\* a default-initialised std::size_t UI_Hash = 0
HashZero == <<0, 0, 0, 0>>

\* hash = ((hash << 5) + hash) + I, modulo 2^64; I is a field hash below 2^31
HashFold(h, I) ==
    LET t1 == h[1] * 33 + I
        t2 == h[2] * 33 + (t1 \div Limb)
        t3 == h[3] * 33 + (t2 \div Limb)
        t4 == h[4] * 33 + (t3 \div Limb)
    IN  <<t1 % Limb, t2 % Limb, t3 % Limb, t4 % Limb>>

\* UI_Hash -= 1, modulo 2^64
HashMinusOne(h) ==
    IF h[1] > 0 THEN <<h[1] - 1, h[2], h[3], h[4]>>
    ELSE IF h[2] > 0 THEN <<Limb - 1, h[2] - 1, h[3], h[4]>>
    ELSE IF h[3] > 0 THEN <<Limb - 1, Limb - 1, h[3] - 1, h[4]>>
    ELSE IF h[4] > 0 THEN <<Limb - 1, Limb - 1, Limb - 1, h[4] - 1>>
    ELSE <<Limb - 1, Limb - 1, Limb - 1, Limb - 1>>

\* std::hash of int, short, unsigned char: the value itself (the fields are >= 0)
StdHashInt(v) == v
\* std::hash<bool>
StdHashBool(b) == B2I(b)
\* std::hash<float>: implementation-defined, a hash of the object representation
\* with 0.0 hashing to 0; modelled as injective on the modelled BPM values
StdHashFloat(f) == IF f = 0 THEN 0 ELSE f + 1000003

\* hash that leaves the lower signature out
hash_WithoutSignatureLower(ui) ==
    LET h1 == HashFold(HashSeed, StdHashInt(ui.CurrentSelection))
        h2 == HashFold(h1, StdHashFloat(ui.BPM))
        h3 == HashFold(h2, StdHashInt(ui.Color))
        h4 == HashFold(h3, StdHashInt(ui.Signature_Upper))
        h6 == HashFold(h4, StdHashInt(ui.VisualizationType))
    IN  HashFold(h6, StdHashBool(ui.Flashing))

hash(ui) ==
    LET h1 == HashFold(HashSeed, StdHashInt(ui.CurrentSelection))
        h2 == HashFold(h1, StdHashFloat(ui.BPM))
        h3 == HashFold(h2, StdHashInt(ui.Color))
        h4 == HashFold(h3, StdHashInt(ui.Signature_Upper))
        h5 == HashFold(h4, StdHashInt(ui.Signature_Lower))
        h6 == HashFold(h5, StdHashInt(ui.VisualizationType))
    IN  HashFold(h6, StdHashBool(ui.Flashing))

---------------------------------------------------------------------------
(* ncurses_InputPipe (DrawSystemNcurses.hpp) *)

\* HandleSelectionKey that toggles whichever field is selected
HandleSelectionKey_AnyField(ui) == ToggleFlashing(ui)

HandleSelectionKey(ui) ==
    IF ui.CurrentSelection = FLASHING THEN ToggleFlashing(ui) ELSE ui

\* HandleArrowKey whose Flashing case follows the direction: right sets, left
\* clears
HandleArrowKey_FlashingBySign(ui, Direction) ==
    CASE ui.CurrentSelection = TIMESIGNATURE -> ui
      [] ui.CurrentSelection = BEATSPERMIN ->
            [ui EXCEPT !.BPM = @ + Scale * (B2I(Direction > 0)
                                   - B2I(ui.BPM > 1 * Scale /\ Direction < 0))]
      [] ui.CurrentSelection = COLORSEL ->
            SetColor(ui, B2I(Direction > 0) - B2I(Direction < 0))
      [] ui.CurrentSelection = VISUALIZATION -> SetVisualization(ui, Direction)
      [] ui.CurrentSelection = FLASHING -> [ui EXCEPT !.Flashing = Direction > 0]
      [] OTHER -> ui

\* UI.BPM += (Direction > 0) - (UI.BPM > 1.0f && Direction < 0)
HandleArrowKey(ui, Direction) ==
    CASE ui.CurrentSelection = TIMESIGNATURE -> ui
      [] ui.CurrentSelection = BEATSPERMIN ->
            [ui EXCEPT !.BPM = @ + Scale * (B2I(Direction > 0)
                                   - B2I(ui.BPM > 1 * Scale /\ Direction < 0))]
      [] ui.CurrentSelection = COLORSEL ->
            SetColor(ui, B2I(Direction > 0) - B2I(Direction < 0))
      [] ui.CurrentSelection = VISUALIZATION -> SetVisualization(ui, Direction)
      [] ui.CurrentSelection = FLASHING -> ToggleFlashing(ui)
      [] OTHER -> ui

\* Keyboard with the two selection keys exchanged
Keyboard_UpDownSwapped(ui, Input) ==
    IF Input = ERR THEN ui
    ELSE IF Input = KEY_UP THEN MoveSelection(ui, 1)
    ELSE IF Input = KEY_DOWN THEN MoveSelection(ui, -1)
    ELSE IF Input = NEWLINE \/ Input = KEY_ENTER THEN HandleSelectionKey(ui)
    ELSE IF Input = KEY_LEFT THEN HandleArrowKey(ui, -1)
    ELSE IF Input = KEY_RIGHT THEN HandleArrowKey(ui, 1)
    ELSE ui

\* Keyboard whose last branch takes every remaining key for a right arrow
Keyboard_ElseIsRight(ui, Input) ==
    IF Input = ERR THEN ui
    ELSE IF Input = KEY_UP THEN MoveSelection(ui, -1)
    ELSE IF Input = KEY_DOWN THEN MoveSelection(ui, 1)
    ELSE IF Input = NEWLINE \/ Input = KEY_ENTER THEN HandleSelectionKey(ui)
    ELSE IF Input = KEY_LEFT THEN HandleArrowKey(ui, -1)
    ELSE HandleArrowKey(ui, 1)

\* the value Keyboard(UI) returns to its caller: the key code read
KeyboardResult(Input) == Input

\* the UserInterface after Keyboard(UI) has read Input from getch()
Keyboard(ui, Input) ==
    IF Input = ERR THEN ui
    ELSE IF Input = KEY_UP THEN MoveSelection(ui, -1)
    ELSE IF Input = KEY_DOWN THEN MoveSelection(ui, 1)
    ELSE IF Input = NEWLINE \/ Input = KEY_ENTER THEN HandleSelectionKey(ui)
    ELSE IF Input = KEY_LEFT THEN HandleArrowKey(ui, -1)
    ELSE IF Input = KEY_RIGHT THEN HandleArrowKey(ui, 1)
    ELSE ui

---------------------------------------------------------------------------
(* Formulas.hpp *)

\* the outcomes of (long unsigned) ComputeMillisecondsPerBeat(UI.BPM): the
\* truncated quotient 60000 / BPM; for BPM <= 0 the conversion of an infinite
\* or negative float to long unsigned is undefined
UndefinedMillis == {0, 1, 500}
ComputeMillisecondsPerBeat(BPM) ==
    IF BPM > 0 THEN {(1000 * 60 * Scale) \div BPM} ELSE UndefinedMillis

---------------------------------------------------------------------------
(* NCursesVisual (DrawSystemNcurses.hpp), VisualOutput (Interface.hpp) *)

\* NCursesVisual(W) constructed at time t
NCursesVisual(t) ==
    [UI_Hash |-> HashZero, FlashState |-> FALSE, FirstTick |-> t,
     LastTick |-> t, TickTimer |-> t, FlashCounter |-> 0]

SetFlashState(v, State) == [v EXCEPT !.FlashState = State]

\* reset that forgets the counter
reset_KeepsCounter(v, t) == [v EXCEPT !.FirstTick = t]

reset(v, t) == [v EXCEPT !.FirstTick = t, !.FlashCounter = 1]

TriggerUIRedraw(h) == HashMinusOne(h)

\* ForceRedraw() that redraws the window and leaves the fingerprint
VisualForceRedraw_NoTrigger(v) == v

VisualForceRedraw(v) == [v EXCEPT !.UI_Hash = TriggerUIRedraw(@)]

\* the pulse width taken as a quarter of the beat
local_FlashInterval_Quarter(MillisPerBeat) ==
    Max(Min(FlashInterval, MillisPerBeat \div 4), 24)

\* std::max(std::min(FlashInterval, (long long)MillisPerBeat / 6), (long long)24)
local_FlashInterval(MillisPerBeat) ==
    Max(Min(FlashInterval, MillisPerBeat \div 6), 24)

\* whether the first statement of DrawFlash resets the machine
DrawFlashResets(v, ui) == hash(ui) # v.UI_Hash \/ ~ui.Flashing

\* a reset that also switches the flash off
DrawFlashReset_FlashOff(v, ui, t) ==
    IF hash(ui) # v.UI_Hash
    THEN SetFlashState(reset([v EXCEPT !.UI_Hash = hash(ui)], t), FALSE)
    ELSE IF ~ui.Flashing THEN SetFlashState(reset(v, t), FALSE)
    ELSE v

\* a reset on a change of the fingerprint only, not while Flashing is false
DrawFlashReset_OnlyOnChange(v, ui, t) ==
    IF hash(ui) # v.UI_Hash THEN reset([v EXCEPT !.UI_Hash = hash(ui)], t)
    ELSE v

\* lines 252-257
DrawFlashReset(v, ui, t) ==
    IF hash(ui) # v.UI_Hash THEN reset([v EXCEPT !.UI_Hash = hash(ui)], t)
    ELSE IF ~ui.Flashing THEN reset(v, t)
    ELSE v

\* the flash switched off a whole beat after the activation
DrawFlashTurnsOff_AfterBeat(v, t, MillisPerBeat) ==
    t - v.TickTimer > MillisPerBeat

\* lines 263-265
DrawFlashTurnsOff(v, t, MillisPerBeat) ==
    t - v.TickTimer > local_FlashInterval(MillisPerBeat)

\* the beat test with >= in place of >
DrawFlashTurnsOn_AtBeat(v, t, MillisPerBeat) ==
    t - v.FirstTick >= MillisPerBeat * v.FlashCounter

\* lines 266-271
DrawFlashTurnsOn(v, t, MillisPerBeat) ==
    t - v.FirstTick > MillisPerBeat * v.FlashCounter

\* DrawFlash that measures the beat from LastTick, the previous activation
DrawFlash_FromLastTick(v, ui, t, MillisPerBeat) ==
    LET v1 == DrawFlashReset(v, ui, t)
        v2 == IF DrawFlashTurnsOff(v1, t, MillisPerBeat)
              THEN SetFlashState(v1, FALSE) ELSE v1
    IN  IF t - v2.LastTick > MillisPerBeat
        THEN [SetFlashState(v2, TRUE) EXCEPT !.LastTick = t, !.TickTimer = t,
                                             !.FlashCounter = @ + 1]
        ELSE v2

\* DrawFlash(UI) at time t, MillisPerBeat being the converted quotient
DrawFlash(v, ui, t, MillisPerBeat) ==
    LET v1 == DrawFlashReset(v, ui, t)
        v2 == IF DrawFlashTurnsOff(v1, t, MillisPerBeat)
              THEN SetFlashState(v1, FALSE) ELSE v1
    IN  IF DrawFlashTurnsOn(v2, t, MillisPerBeat)
        THEN [SetFlashState(v2, TRUE) EXCEPT !.LastTick = t, !.TickTimer = t,
                                             !.FlashCounter = @ + 1]
        ELSE v2

---------------------------------------------------------------------------
(* NCursesDrawer (DrawSystemNcurses.hpp) *)

\* a window after wclear and box: no text in it
ClearedWindow == <<>>

\* enum class Location
North == "North"
East == "East"
South == "South"
West == "West"
Location == {North, East, South, West}

\* the values of the owning pointer m_VOut: null, or the NCursesVisual that
\* the variable VOut holds
nullptr == "nullptr"
VisualPtr == "NCursesVisual"

\* NCursesDrawer() on top of Drawer: Orientation North, m_VOut null;
\* InputWindow is the text of the input window, row by row
DrawerObject ==
    [UI_Hash |-> HashZero, ForceRedraw |-> FALSE, InputWindow |-> ClearedWindow,
     Orientation |-> North, m_VOut |-> nullptr]

SetOrientation(d, L) == [d EXCEPT !.Orientation = L]

\* m_VOut is made for the orientation North only
CreateVisualWindow(d) ==
    IF d.Orientation = North THEN [d EXCEPT !.m_VOut = VisualPtr] ELSE d

\* the drawer of MainWindow: NCursesDrawer(), CreateInputWindow() and
\* CreateVisualWindow() with the default orientation
NCursesDrawer == CreateVisualWindow(DrawerObject)

\* PrintUI goes past its early return
PrintUIRenders(d, ui) == ~(hash(ui) = d.UI_Hash /\ ~d.ForceRedraw)

\* PrintUI that ignores the forced-redraw flag
PrintUI_IgnoresForce(d, ui) ==
    IF hash(ui) = d.UI_Hash THEN d
    ELSE [d EXCEPT !.UI_Hash = hash(ui),
                   !.InputWindow =
                       [i \in 1 .. NumberOfLabels |->
                           [label |-> LabelText(ui, i - 1),
                            standout |-> (i - 1 = ui.CurrentSelection)]]]

\* the drawer after PrintUI(UI): row i + 1 of the window holds GetLabel(i),
\* in standout when i is the current selection
PrintUI(d, ui) ==
    IF ~PrintUIRenders(d, ui) THEN d
    ELSE [d EXCEPT !.UI_Hash = hash(ui),
                   !.InputWindow =
                       [i \in 1 .. NumberOfLabels |->
                           [label |-> LabelText(ui, i - 1),
                            standout |-> (i - 1 = ui.CurrentSelection)]]]

RECURSIVE GetLabels(_, _)
\* the UserInterface after GetLabel(0), ..., GetLabel(n - 1)
GetLabels(ui, n) ==
    IF n = 0 THEN ui ELSE GetLabel(GetLabels(ui, n - 1), n - 1)

\* the UserInterface after PrintUI(UI), which takes it by non-const reference
PrintUILabels(d, ui) ==
    IF ~PrintUIRenders(d, ui) THEN ui ELSE GetLabels(ui, NumberOfLabels)

\* the visual output as UpdateVisual hands it to DrawFlash
UpdateVisualForce(d, v) == IF d.ForceRedraw THEN VisualForceRedraw(v) ELSE v

\* UpdateVisual that runs DrawFlash only when the drawer's fingerprint of the
\* fields has just been stored or a redraw is forced
UpdateVisual_OnlyOnChange(d, v, ui, t, MillisPerBeat) ==
    IF d.UI_Hash = v.UI_Hash /\ ~d.ForceRedraw THEN v
    ELSE DrawFlash(UpdateVisualForce(d, v), ui, t, MillisPerBeat)

\* line 374-376 with m_VOut null: ForceRedraw() is called through a null
\* pointer before the test of line 377
UpdateVisualDereferencesNull(d) == d.ForceRedraw /\ d.m_VOut = nullptr

UpdateVisual(d, v, ui, t, MillisPerBeat) ==
    IF d.m_VOut = nullptr THEN v
    ELSE DrawFlash(UpdateVisualForce(d, v), ui, t, MillisPerBeat)

\* the windows are resized, TriggerUIRedraw, Redraw: every child is cleared
ProcessResize(d) ==
    [d EXCEPT !.UI_Hash = TriggerUIRedraw(@), !.InputWindow = ClearedWindow]

\* NCursesDrawer::HandleInput(Interaction)
DrawerHandleInput(d, Keypress) ==
    IF Keypress = KEY_RESIZE
    THEN ProcessResize([d EXCEPT !.ForceRedraw = TRUE])
    ELSE [d EXCEPT !.ForceRedraw = FALSE]

---------------------------------------------------------------------------
(* History *)

\* name and arg: the operation and its argument.  Of a Draw: whether DrawFlash
\* reset the machine, turned the flash off, turned it on; the MillisPerBeat and
\* local_FlashInterval it computed; Diff and DiffTick as it compared them; the
\* FlashState and FlashCounter it found; whether a field had changed since
\* the previous DrawFlash.  Of a PrintUI: whether it rendered, and whether the
\* fingerprint of the fields equalled the stored one
NoOp == [name |-> "init", arg |-> 0, reset |-> FALSE, off |-> FALSE,
         on |-> FALSE, MillisPerBeat |-> 0, Interval |-> 0, Diff |-> 0,
         DiffTick |-> 0, wasOn |-> FALSE, wasCounter |-> 0, changed |-> FALSE,
         rendered |-> FALSE, same |-> FALSE]

Did(name, arg) == [NoOp EXCEPT !.name = name, !.arg = arg]

\* the elapsed times (since the reset) of the end-to-end scenario's invocations
Scenario == <<0, 500, 524, 1000>>

\* the calls since the last reset have left the scenario
OffScenario == <<-1>>

HistAfter(h, resets, elapsed) ==
    IF resets THEN <<0>>
    ELSE IF h # OffScenario /\ Len(h) < Len(Scenario)
            /\ Scenario[Len(h) + 1] = elapsed
    THEN Append(h, elapsed)
    ELSE OffScenario

---------------------------------------------------------------------------
(* The driving loop (Christoff.cpp, MainWindow in Interface.hpp) *)

\* MainWindow(): CreateInputWindow, CreateVisualWindow, Refresh; Running = true
Constructed(ui) ==
    /\ UI = ui
    /\ VOut = NCursesVisual(0)
    /\ Drw = NCursesDrawer
    /\ now = 0
    /\ pc = "input"
    /\ Running = TRUE
    /\ nKeys = 0
    /\ op = NoOp
    /\ hist = <<>>
    /\ drawn = <<>>

\* the steady clock advances while getch() waits for input
Tick(d, horizon) ==
    /\ pc = "input"
    /\ now + d <= horizon
    /\ now' = now + d
    /\ op' = Did("Tick", d)
    /\ UNCHANGED <<UI, VOut, Drw, pc, Running, nKeys, hist, drawn>>

\* HandleInput with the assignment Keypress = 'q' in place of the comparison:
\* every key ends the loop
HandleInput_AssignsQ(Input) ==
    /\ pc = "input"
    /\ UI' = Keyboard(UI, Input)
    /\ Running' = FALSE
    /\ pc' = "draw"
    /\ op' = Did("HandleInput", Input)
    /\ UNCHANGED <<VOut, Drw, now, hist, drawn>>

\* MainWindow::HandleInput(Running): the key goes to the input pipe only
HandleInput(Input) ==
    /\ pc = "input"
    /\ UI' = Keyboard(UI, Input)
    /\ Running' = IF KeyboardResult(Input) = KEY_Q THEN FALSE ELSE Running
    /\ pc' = "draw"
    /\ op' = Did("HandleInput", Input)
    /\ UNCHANGED <<VOut, Drw, now, hist, drawn>>

\* MainWindow::Draw(): PrintUI then UpdateVisual
Draw ==
    /\ pc = "draw"
    /\ UI' = PrintUILabels(Drw, UI)
    /\ Drw' = PrintUI(Drw, UI)
    /\ \E m \in ComputeMillisecondsPerBeat(UI.BPM) :
          LET v0 == UpdateVisualForce(Drw, VOut)
              v1 == DrawFlashReset(v0, UI, now)
              v2 == IF DrawFlashTurnsOff(v1, now, m)
                    THEN SetFlashState(v1, FALSE) ELSE v1
          IN  /\ VOut' = UpdateVisual(Drw', VOut, UI', now, m)
              /\ op' = [name |-> "Draw", arg |-> 0,
                        reset |-> DrawFlashResets(v0, UI),
                        off |-> DrawFlashTurnsOff(v1, now, m),
                        on |-> DrawFlashTurnsOn(v2, now, m),
                        MillisPerBeat |-> m,
                        Interval |-> local_FlashInterval(m),
                        Diff |-> now - v1.FirstTick,
                        DiffTick |-> now - v1.TickTimer,
                        wasOn |-> VOut.FlashState,
                        wasCounter |-> VOut.FlashCounter,
                        changed |-> (drawn # <<>> /\ drawn # <<Fields(UI)>>),
                        rendered |-> PrintUIRenders(Drw, UI),
                        same |-> (hash(UI) = Drw.UI_Hash)]
              /\ hist' = HistAfter(hist, DrawFlashResets(v0, UI),
                                   now - v1.FirstTick)
    /\ drawn' = <<Fields(UI)>>
    /\ pc' = "refresh"
    /\ UNCHANGED <<now, Running, nKeys>>

\* MainWindow::Refresh() and the loop test while (Running)
Refresh ==
    /\ pc = "refresh"
    /\ pc' = IF Running THEN "input" ELSE "done"
    /\ UNCHANGED <<UI, VOut, Drw, now, Running, nKeys, op, hist, drawn>>

---------------------------------------------------------------------------
(* Specification of the fields: the mutators and the input pipe, called in *)
(* any order on the constructed UserInterface                              *)

Init == Constructed(UI_Init)

\* the BPM a key event leaves lies within lo .. hi whole beats
BPMWithin(Input, lo, hi) ==
    LET b == Keyboard(UI, Input).BPM IN lo * Scale <= b /\ b <= hi * Scale

Call(ui, name, arg) ==
    /\ UI' = ui
    /\ op' = Did(name, arg)
    /\ UNCHANGED <<VOut, Drw, now, pc, Running, nKeys, hist, drawn>>

CallKeyboard(Input) ==
    /\ BPMWithin(Input, 120 - BPMWindow, 120 + BPMWindow)
    /\ Call(Keyboard(UI, Input), "Keyboard", Input)

CallMoveSelection(d) == Call(MoveSelection(UI, d), "MoveSelection", d)
CallSetColor(d) == Call(SetColor(UI, d), "SetColor", d)
CallSetVisualization(d) == Call(SetVisualization(UI, d), "SetVisualization", d)
CallToggleFlashing == Call(ToggleFlashing(UI), "ToggleFlashing", 0)

Next ==
    \/ \E Input \in Keys : CallKeyboard(Input)
    \/ \E d \in Directions : CallMoveSelection(d)
    \/ \E d \in Directions : CallSetColor(d)
    \/ \E d \in Directions : CallSetVisualization(d)
    \/ CallToggleFlashing

Spec == Init /\ [][Next]_vars

---------------------------------------------------------------------------
(* Specification of BPM: the loop of main with the user selecting the BPM  *)
(* field and then pressing the arrow keys, and SetBPM called between ticks *)

BPMKeys == IF UI.CurrentSelection = BEATSPERMIN
           THEN {KEY_LEFT, KEY_RIGHT, ERR} ELSE {KEY_DOWN}

BPMKey(Input) ==
    /\ BPMWithin(Input, 0, MaxBPM)
    /\ HandleInput(Input)
    /\ UNCHANGED nKeys

CallSetBPM(newBPM) ==
    /\ pc = "input"
    /\ Call(SetBPM(UI, newBPM), "SetBPM", newBPM)

NextArrow ==
    \/ \E Input \in BPMKeys : BPMKey(Input)
    \/ Draw
    \/ Refresh

\* arrow keys only, from the constructed state
SpecArrow == Init /\ [][NextArrow]_vars

NextBPM ==
    \/ NextArrow
    \/ \E newBPM \in SetBPMInputs : CallSetBPM(newBPM)

SpecBPM == Init /\ [][NextBPM]_vars

---------------------------------------------------------------------------
(* Specifications of the flash timing: the loop of main under a clock that *)
(* advances in steps, started after the loop has drawn the fields once     *)

\* the loop has drawn the fields ui once, at time 0, and waits for input
Settled(ui) ==
    /\ UI = PrintUILabels(NCursesDrawer, ui)
    /\ VOut \in {DrawFlash(NCursesVisual(0), ui, 0, m) :
                    m \in ComputeMillisecondsPerBeat(ui.BPM)}
    /\ Drw = PrintUI(NCursesDrawer, ui)
    /\ now = 0
    /\ pc = "input"
    /\ Running = TRUE
    /\ nKeys = 0
    /\ op = NoOp
    /\ hist = <<0>>
    /\ drawn = <<Fields(ui)>>

\* The end-to-end scenario: BPM = 120, flashing enabled, and no key event
\* that changes a field.
ScenarioSteps == {24, 40, 436}
ScenarioKeys == {ERR, KEY_OTHER}

InitScenario ==
    Settled([UI_Init EXCEPT !.CurrentSelection = FLASHING, !.Flashing = TRUE])

ScenarioKey(Input) == HandleInput(Input) /\ UNCHANGED nKeys

NextScenario ==
    \/ \E d \in ScenarioSteps : Tick(d, MaxTime)
    \/ \E Input \in ScenarioKeys : ScenarioKey(Input)
    \/ Draw
    \/ Refresh

SpecScenario == InitScenario /\ [][NextScenario]_vars

\* Key events at any time: BPM = 300 (200 ms per beat, a 33 ms pulse), the
\* BPM or the Flashing field selected, flashing on or off, at most MaxKeys
\* key events.
FlashBPM == 300
FlashSteps == {30, 200}

FlashSetups ==
    {[UI_Init EXCEPT !.CurrentSelection = sel, !.Flashing = f,
                     !.BPM = FlashBPM * Scale] :
        sel \in {BEATSPERMIN, FLASHING}, f \in BOOLEAN}

InitFlash == \E ui \in FlashSetups : Settled(ui)

FlashKey(Input) ==
    /\ Input # ERR => nKeys < MaxKeys
    /\ BPMWithin(Input, FlashBPM - BPMWindow, FlashBPM + BPMWindow)
    /\ HandleInput(Input)
    /\ nKeys' = IF Input = ERR THEN nKeys ELSE nKeys + 1

NextFlash ==
    \/ \E d \in FlashSteps : Tick(d, MaxFlashTime)
    \/ \E Input \in Keys : FlashKey(Input)
    \/ Draw
    \/ Refresh

SpecFlash == InitFlash /\ [][NextFlash]_vars

\* The loop until it ends: the same clock and setups, the quit key among the
\* keys.
QuitKeys == {ERR, KEY_Q, KEY_ENTER, KEY_RESIZE}

NextQuit ==
    \/ \E d \in FlashSteps : Tick(d, MaxFlashTime)
    \/ \E Input \in QuitKeys : FlashKey(Input)
    \/ Draw
    \/ Refresh

SpecQuit == InitFlash /\ [][NextQuit]_vars

---------------------------------------------------------------------------
(* Specification of the drawer: the public operations of NCursesDrawer and *)
(* the input pipe called in any order, at most MaxDrawerKeys key and       *)
(* resize events                                                           *)

DrawerSetups ==
    {[UI_Init EXCEPT !.CurrentSelection = sel, !.Flashing = f] :
        sel \in {COLORSEL, FLASHING}, f \in BOOLEAN}

InitDrawer == \E ui \in DrawerSetups : Constructed(ui)

DrawerKey(Input) ==
    /\ nKeys < MaxDrawerKeys
    /\ BPMWithin(Input, 120 - BPMWindow, 120 + BPMWindow)
    /\ UI' = Keyboard(UI, Input)
    /\ nKeys' = nKeys + 1
    /\ op' = Did("Keyboard", Input)
    /\ UNCHANGED <<VOut, Drw, now, pc, Running, hist, drawn>>

\* NCursesDrawer::HandleInput(Interaction) with Interaction.Keypress = Keypress
CallDrawerHandleInput(Keypress) ==
    /\ Keypress = KEY_RESIZE => nKeys < MaxDrawerKeys
    /\ Drw' = DrawerHandleInput(Drw, Keypress)
    /\ nKeys' = IF Keypress = KEY_RESIZE THEN nKeys + 1 ELSE nKeys
    /\ op' = Did("DrawerHandleInput", Keypress)
    /\ UNCHANGED <<UI, VOut, now, pc, Running, hist, drawn>>

\* NCursesDrawer::PrintUI(UI)
CallPrintUI ==
    /\ UI' = PrintUILabels(Drw, UI)
    /\ Drw' = PrintUI(Drw, UI)
    /\ op' = [Did("PrintUI", 0) EXCEPT
                 !.changed = (drawn # <<>> /\ drawn # <<Fields(UI)>>),
                 !.rendered = PrintUIRenders(Drw, UI),
                 !.same = (hash(UI) = Drw.UI_Hash)]
    /\ drawn' = <<Fields(UI)>>
    /\ UNCHANGED <<VOut, now, pc, Running, nKeys, hist>>

NextDrawer ==
    \/ \E Input \in Keys : DrawerKey(Input)
    \/ \E Keypress \in {KEY_RESIZE, ERR} : CallDrawerHandleInput(Keypress)
    \/ CallPrintUI

SpecDrawer == InitDrawer /\ [][NextDrawer]_vars

---------------------------------------------------------------------------
(* Specification of the visual output: NCursesDrawer::HandleInput and      *)
(* UpdateVisual called in any order on a drawer of any orientation, under  *)
(* the clock of the flash timing, with at most MaxKeys key and resize      *)
(* events                                                                  *)

\* the keys that change the BPM or the Flashing field
VisualKeys == {KEY_RIGHT, KEY_ENTER}

\* SetOrientation(L) and CreateVisualWindow() on a new NCursesDrawer
InitVisual ==
    \E ui \in FlashSetups, L \in Location :
        /\ UI = ui
        /\ VOut = NCursesVisual(0)
        /\ Drw = CreateVisualWindow(SetOrientation(DrawerObject, L))
        /\ now = 0
        /\ pc = "input"
        /\ Running = TRUE
        /\ nKeys = 0
        /\ op = NoOp
        /\ hist = <<>>
        /\ drawn = <<>>

VisualKey(Input) ==
    /\ pc = "input"
    /\ nKeys < MaxKeys
    /\ BPMWithin(Input, FlashBPM - BPMWindow, FlashBPM + BPMWindow)
    /\ UI' = Keyboard(UI, Input)
    /\ nKeys' = nKeys + 1
    /\ op' = Did("Keyboard", Input)
    /\ UNCHANGED <<VOut, Drw, now, pc, Running, hist, drawn>>

VisualHandleInput(Keypress) ==
    /\ pc = "input"
    /\ Keypress = KEY_RESIZE => nKeys < MaxKeys
    /\ Drw' = DrawerHandleInput(Drw, Keypress)
    /\ nKeys' = IF Keypress = KEY_RESIZE THEN nKeys + 1 ELSE nKeys
    /\ op' = Did("DrawerHandleInput", Keypress)
    /\ UNCHANGED <<UI, VOut, now, pc, Running, hist, drawn>>

\* NCursesDrawer::UpdateVisual(UI) where every pointer it uses is valid
CallUpdateVisual ==
    /\ pc = "input"
    /\ ~UpdateVisualDereferencesNull(Drw)
    /\ \E m \in ComputeMillisecondsPerBeat(UI.BPM) :
          LET v0 == UpdateVisualForce(Drw, VOut)
              v1 == DrawFlashReset(v0, UI, now)
              v2 == IF DrawFlashTurnsOff(v1, now, m)
                    THEN SetFlashState(v1, FALSE) ELSE v1
              ran == Drw.m_VOut # nullptr
          IN  /\ VOut' = UpdateVisual(Drw, VOut, UI, now, m)
              /\ op' = [Did("UpdateVisual", 0) EXCEPT
                           !.reset = ran /\ DrawFlashResets(v0, UI),
                           !.off = ran /\ DrawFlashTurnsOff(v1, now, m),
                           !.on = ran /\ DrawFlashTurnsOn(v2, now, m),
                           !.MillisPerBeat = m,
                           !.Interval = local_FlashInterval(m),
                           !.Diff = now - v1.FirstTick,
                           !.DiffTick = now - v1.TickTimer,
                           !.wasOn = VOut.FlashState,
                           !.wasCounter = VOut.FlashCounter,
                           !.changed = (drawn # <<>> /\ drawn # <<Fields(UI)>>)]
    /\ drawn' = <<Fields(UI)>>
    /\ UNCHANGED <<UI, Drw, now, pc, Running, nKeys, hist>>

\* UpdateVisual(UI) that calls ForceRedraw() through the null m_VOut: the
\* behaviour is undefined.  The call faults and the process ends, or the
\* call through the null pointer has no effect and line 377 returns.
CallUpdateVisualNull ==
    /\ pc = "input"
    /\ UpdateVisualDereferencesNull(Drw)
    /\ pc' \in {"crashed", "input"}
    /\ op' = Did("UpdateVisual", 0)
    /\ UNCHANGED <<UI, VOut, Drw, now, Running, nKeys, hist, drawn>>

NextVisual ==
    \/ \E d \in FlashSteps : Tick(d, MaxFlashTime)
    \/ \E Input \in VisualKeys : VisualKey(Input)
    \/ \E Keypress \in {KEY_RESIZE, ERR} : VisualHandleInput(Keypress)
    \/ CallUpdateVisual
    \/ CallUpdateVisualNull

SpecVisual == InitVisual /\ [][NextVisual]_vars

---------------------------------------------------------------------------
(* The claims *)

\* C1 (as stated): with the BPM field selected and BPM >= 1.0, a left-arrow
\* key event handled by the input pipe never leaves BPM below 1.0.
C1_LeftArrowKeepsFloor ==
    [][(/\ pc = "input"
        /\ UI.CurrentSelection = BEATSPERMIN
        /\ UI.BPM >= 1 * Scale
        /\ op'.name = "HandleInput"
        /\ op'.arg = KEY_LEFT) => UI'.BPM >= 1 * Scale]_vars

\* C2 (as stated): BPM = 120, flashing enabled, fingerprint unchanged after
\* the reset at elapsed 0; DrawFlash at elapsed 0, 500, 524 and 1000 ms leaves
\* the flash off, on, off, on, and flashCounter is 3 after the call at 1000.
C2_ScenarioAsStated ==
    \A n \in 1 .. Len(Scenario) :
        hist = SubSeq(Scenario, 1, n) =>
            /\ VOut.FlashState = <<FALSE, TRUE, FALSE, TRUE>>[n]
            /\ n = 4 => VOut.FlashCounter = 3

\* C2 (amended): on the same schedule, the flash being off when the machine
\* is reset, the flash is off after the call at 0 and still off after the call
\* at 500 (the beat test is strict), the call at 524 turns it on and makes
\* flashCounter 2, the call at 1000 turns it off and not on again, so
\* flashCounter stays 2; the pulse width at BPM = 120 is 64 ms: a lit flash is
\* turned off only by a call more than 64 ms after the activation.
C2_ScenarioAmended ==
    /\ \A n \in 1 .. Len(Scenario) :
          hist = SubSeq(Scenario, 1, n) =>
              /\ VOut.FlashState = <<FALSE, FALSE, TRUE, FALSE>>[n]
              /\ VOut.FlashCounter = <<1, 1, 2, 2>>[n]
              /\ op.name = "Draw" => op.on = (n = 3)
    /\ op.name = "Draw" =>
          /\ op.MillisPerBeat = 500
          /\ op.Interval = 64
          /\ op.wasOn /\ ~VOut.FlashState => op.DiffTick > 64
          /\ op.wasOn /\ op.DiffTick <= 64 => VOut.FlashState

\* C2 witness: the four calls of the scenario have been made.
C2_Witness ==
    /\ hist = Scenario
    /\ op.name = "Draw"
    /\ VOut.FirstTick = 0
    /\ now = 1000
    /\ VOut.FlashCounter = 2

\* C3 (as stated): after every DrawFlash call made with Flashing = false the
\* flash is off, whatever the timing state and the elapsed time were.
C3_ToggleOffForcesFlashOff ==
    op.name = "Draw" /\ ~UI.Flashing => ~VOut.FlashState

\* C4: a DrawFlash call that finds a fingerprint field changed since the
\* previous call ends with FlashCounter = 1 and FirstTick = the time of the
\* call, whatever the counter and FirstTick were.
C4_ResetOnFingerprintChange ==
    op.name = "Draw" /\ op.changed =>
        /\ op.reset
        /\ VOut.FlashCounter = 1
        /\ VOut.FirstTick = now
        /\ VOut.UI_Hash = hash(UI)

\* C4 witness: BPM was edited after the flash had fired, flashing enabled, and
\* the next DrawFlash call reset the machine.
C4_Witness ==
    /\ op.name = "Draw"
    /\ op.changed
    /\ UI.Flashing
    /\ UI.BPM # FlashBPM * Scale
    /\ op.wasCounter > 1
    /\ now > 0
    /\ VOut.FlashCounter = 1

\* the pulse width max(24, min(64, millisPerBeat / 6)), written out
PulseWidth(MillisPerBeat) ==
    LET sixth == MillisPerBeat \div 6
    IN  IF sixth >= 64 THEN 64 ELSE IF sixth <= 24 THEN 24 ELSE sixth

\* C5: the pulse width DrawFlash uses is max(24, min(64, millisPerBeat / 6));
\* for every BPM in [1, 350] it lies in [24, 64] and does not exceed
\* millisPerBeat / 6; it is 28 at BPM = 350 and 64 at BPM = 30.
C5_PulseWidthFormula ==
    op.name = "Draw" /\ 1 * Scale <= UI.BPM /\ UI.BPM <= 350 * Scale =>
        /\ op.MillisPerBeat = (60000 * Scale) \div UI.BPM
        /\ op.Interval = PulseWidth(op.MillisPerBeat)
        /\ 24 <= op.Interval /\ op.Interval <= 64
        /\ op.Interval <= op.MillisPerBeat \div 6
        /\ UI.BPM = 350 * Scale => op.MillisPerBeat = 171 /\ op.Interval = 28
        /\ UI.BPM = 30 * Scale => op.MillisPerBeat = 2000 /\ op.Interval = 64

\* C5 witness: DrawFlash has run at BPM = 350, where the sixth of the beat
\* decides the pulse width.
C5_Witness ==
    /\ op.name = "Draw"
    /\ UI.BPM = 350 * Scale
    /\ op.Interval = 28

\* C6 (as stated): for every BPM the arrow keys reach from 120, the pulse
\* width DrawFlash computes is at least 24 ms and strictly below millisPerBeat.
C6_PulseWithinBeat ==
    op.name = "Draw" =>
        /\ op.Interval >= 24
        /\ op.Interval < op.MillisPerBeat

\* C7 (as stated): BPM stays inside (0, 350] under key events and SetBPM.
C7_BPMAtMost350 == 0 < UI.BPM /\ UI.BPM <= 350 * Scale

\* C8: BPM > 0 whenever DrawFlash is invoked, so 60000 / BPM divides by a
\* positive number; SetBPM leaves BPM in [0.01, 350] for every argument.
C8_BPMPositiveAtDrawFlash ==
    /\ pc = "draw" \/ op.name = "Draw" => UI.BPM > 0
    /\ op.name = "SetBPM" => 1 <= UI.BPM /\ UI.BPM <= 350 * Scale
    /\ op.name = "Draw" => op.MillisPerBeat * UI.BPM <= 60000 * Scale

\* C8 witness: DrawFlash has run on the BPM that SetBPM clamped up to 0.01.
C8_Witness ==
    /\ op.name = "Draw"
    /\ UI.BPM = 1
    /\ op.MillisPerBeat = 60000 * Scale

\* C9 (as stated): the stored visualization ordinal is the ordinal of a member
\* of the Visualization enumeration.
C9_VisualizationIsEnumerated == UI.VisualizationType \in Visualization

\* C10: selection is in [0, 5), colorIndex in [0, MaxColors] and the
\* visualization ordinal in [0, MaxVisualizations] in every reachable state.
C10_FieldsWithinBounds ==
    /\ UI.CurrentSelection \in 0 .. NumberOfLabels - 1
    /\ UI.Color \in 0 .. MaxColors
    /\ UI.VisualizationType \in 0 .. MaxVisualizations

\* C10 witness: all three fields stand at their upper bounds, the selection
\* having wrapped there from 0.
C10_Witness ==
    /\ op.name = "MoveSelection"
    /\ op.arg < 0
    /\ UI.CurrentSelection = NumberOfLabels - 1
    /\ UI.Color = MaxColors
    /\ UI.VisualizationType = MaxVisualizations

RECURSIVE MoveSelectionTimes(_, _, _)
\* MoveSelection(direction) applied n times
MoveSelectionTimes(ui, direction, n) ==
    IF n = 0 THEN ui
    ELSE MoveSelectionTimes(MoveSelection(ui, direction), direction, n - 1)

\* C11: from every selection index, MoveSelection applied 5 times (the field
\* count) with one non-zero direction sign returns to the starting index, and
\* not before; MoveSelection(+1) followed by MoveSelection(-1) is the identity,
\* and so is the reverse order.
C11_SelectionWrapsCircularly ==
    /\ \A d \in Directions \ {0} :
          /\ MoveSelectionTimes(UI, d, NumberOfLabels) = UI
          /\ \A n \in 1 .. NumberOfLabels - 1 : MoveSelectionTimes(UI, d, n) # UI
    /\ \A d \in Directions, e \in Directions :
          d > 0 /\ e < 0 =>
              /\ MoveSelection(MoveSelection(UI, d), e) = UI
              /\ MoveSelection(MoveSelection(UI, e), d) = UI

\* C11 witness: MoveSelection with a positive direction has just wrapped the
\* selection from the last field to the first.
C11_Witness ==
    /\ op.name = "MoveSelection"
    /\ op.arg > 0
    /\ UI.CurrentSelection = 0
    /\ UI.Color = MaxColors

\* one step of a field that wraps over 0 .. max
WrapStep(v, direction, max) ==
    IF direction > 0 THEN (IF v = max THEN 0 ELSE v + 1)
    ELSE IF direction < 0 THEN (IF v = 0 THEN max ELSE v - 1)
    ELSE v

\* C12: SetColor steps colorIndex by one in the direction's sign, from
\* MaxColors up to 0 and from 0 down to MaxColors; SetVisualization does the
\* same over 0 .. MaxVisualizations; direction 0 changes nothing, and no other
\* field changes.  The left and right keys on the two fields do the same.
C12_ColorVisualizationWrap ==
    [][/\ op'.name = "SetColor" =>
             UI' = [UI EXCEPT !.Color = WrapStep(@, op'.arg, MaxColors)]
       /\ op'.name = "SetVisualization" =>
             UI' = [UI EXCEPT !.VisualizationType =
                                  WrapStep(@, op'.arg, MaxVisualizations)]
       /\ op'.name = "Keyboard" /\ op'.arg \in {KEY_LEFT, KEY_RIGHT} =>
             LET d == IF op'.arg = KEY_RIGHT THEN 1 ELSE -1
             IN  /\ UI.CurrentSelection = COLORSEL =>
                       UI' = [UI EXCEPT !.Color = WrapStep(@, d, MaxColors)]
                 /\ UI.CurrentSelection = VISUALIZATION =>
                       UI' = [UI EXCEPT !.VisualizationType =
                                            WrapStep(@, d, MaxVisualizations)]
      ]_vars

\* C12 witness: SetVisualization with a negative direction has wrapped the
\* ordinal from 0 to the maximum, colorIndex standing at its maximum.
C12_Witness ==
    /\ op.name = "SetVisualization"
    /\ op.arg < 0
    /\ UI.VisualizationType = MaxVisualizations
    /\ UI.Color = MaxColors
    /\ UI.CurrentSelection = VISUALIZATION

\* values a short signature field takes
SignatureValues == {-32768, -1, 0, 3, 4, 8, 32767}

\* BPM values, in hundredths: 0.01, 0.5, 1.5, 119, 120, 121, 350, 2401
BPMValues == {1, 50, 150, 11900, 12000, 12100, 35000, 240100}

\* the snapshots that differ from ui in exactly one of the seven fields
SingleFieldVariants(ui) ==
    (   {[ui EXCEPT !.CurrentSelection = v] : v \in 0 .. NumberOfLabels - 1}
   \cup {[ui EXCEPT !.BPM = v] : v \in BPMValues}
   \cup {[ui EXCEPT !.Color = v] : v \in 0 .. MaxColors}
   \cup {[ui EXCEPT !.Signature_Upper = v] : v \in SignatureValues}
   \cup {[ui EXCEPT !.Signature_Lower = v] : v \in SignatureValues}
   \cup {[ui EXCEPT !.VisualizationType = v] : v \in 0 .. MaxVisualizations}
   \cup {[ui EXCEPT !.Flashing = v] : v \in BOOLEAN}) \ {ui}

\* C13: the fingerprint depends on the seven fields only (a snapshot with the
\* same fields and another label cache has the same fingerprint), every
\* snapshot that differs in exactly one field has a different fingerprint,
\* and the fingerprint a render stores is the fingerprint of the fields.
C13_FingerprintOfTheFields ==
    /\ \A v \in SingleFieldVariants(UI) : hash(v) # hash(UI)
    /\ hash(GetLabels(UI, NumberOfLabels)) = hash(UI)
    /\ hash([UI EXCEPT !.Labels = UI_Init.Labels]) = hash(UI)
    /\ op.name = "PrintUI" /\ op.rendered => Drw.UI_Hash = hash(UI)

\* C13 witness: a field was changed after a render, and PrintUI found the
\* fingerprint different from the stored one and rendered.
C13_Witness ==
    /\ op.name = "PrintUI"
    /\ op.changed
    /\ op.rendered
    /\ ~op.same
    /\ ~Drw.ForceRedraw
    /\ Drw.UI_Hash = hash(UI)

C15_UpdateVisualAlwaysDrawsFlash ==
    [][pc = "draw" =>
          /\ op'.name = "Draw"
          /\ pc' = "refresh"
          /\ VOut' = DrawFlash(UpdateVisualForce(Drw, VOut), UI, now,
                               op'.MillisPerBeat)
          /\ VOut'.UI_Hash = hash(UI)]_vars

\* C15 witness: a Draw() in which no field had changed and PrintUI skipped
\* its render, and DrawFlash turned the flash on.
C15_Witness ==
    /\ op.name = "Draw"
    /\ ~op.changed
    /\ ~op.rendered
    /\ ~op.reset
    /\ op.on
    /\ ~op.wasOn
    /\ VOut.FlashState

\* C16 (as stated): when the input step of the loop has read the resize
\* pseudo-key, the forced-redraw flag is set and the windows have been
\* redrawn (cleared) before the tick's rendering.
C16_ResizeForcesRedraw ==
    op.name = "HandleInput" /\ op.arg = KEY_RESIZE =>
        /\ Drw.ForceRedraw
        /\ Drw.InputWindow = ClearedWindow

\* the keys the input pipe takes for the selection (enter) key
EnterKeys == {NEWLINE, KEY_ENTER}

\* C17: the selection (enter) key inverts flashingEnabled and changes nothing
\* else when the Flashing field is selected, and changes no field when any
\* other field is selected.
C17_EnterKeyTogglesFlashingOnly ==
    [][op'.name = "Keyboard" /\ op'.arg \in EnterKeys =>
          UI' = IF UI.CurrentSelection = FLASHING
                THEN [UI EXCEPT !.Flashing = ~UI.Flashing]
                ELSE UI]_vars

\* C17 witness: the enter key has just switched flashing on, on the Flashing
\* field, the other fields away from their initial values.
C17_Witness ==
    /\ op.name = "Keyboard"
    /\ op.arg = KEY_ENTER
    /\ UI.CurrentSelection = FLASHING
    /\ UI.Flashing
    /\ UI.Color = 3
    /\ UI.VisualizationType = 2

\* C18: with the Flashing field selected the left and the right arrow key
\* each invert flashingEnabled and leave every other field unchanged, so two
\* of them, of any signs, restore the fields.
C18_FlashingArrowsToggle ==
    /\ [][op'.name = "Keyboard" /\ op'.arg \in {KEY_LEFT, KEY_RIGHT}
            /\ UI.CurrentSelection = FLASHING =>
              UI' = [UI EXCEPT !.Flashing = ~UI.Flashing]]_vars
    /\ [](UI.CurrentSelection = FLASHING =>
            /\ Keyboard(UI, KEY_LEFT) = Keyboard(UI, KEY_RIGHT)
            /\ \A k1 \in {KEY_LEFT, KEY_RIGHT}, k2 \in {KEY_LEFT, KEY_RIGHT} :
                  Keyboard(Keyboard(UI, k1), k2) = UI)

\* C18 witness: a left arrow on the Flashing field has just switched flashing
\* on.
C18_Witness ==
    /\ op.name = "Keyboard"
    /\ op.arg = KEY_LEFT
    /\ UI.CurrentSelection = FLASHING
    /\ UI.Flashing

\* C19: whichever field is selected, Up moves the selection one back and Down
\* one forward, wrapping over the five fields, and neither changes another
\* field.
C19_UpDownMoveSelection ==
    [][op'.name = "Keyboard" /\ op'.arg \in {KEY_UP, KEY_DOWN} =>
          UI' = [UI EXCEPT !.CurrentSelection =
                    IF op'.arg = KEY_DOWN
                    THEN (@ + 1) % NumberOfLabels
                    ELSE (@ + NumberOfLabels - 1) % NumberOfLabels]]_vars

\* C19 witness: Up on the first field has just wrapped the selection to the
\* last one, flashing enabled and the other fields away from their initial
\* values.
C19_Witness ==
    /\ op.name = "Keyboard"
    /\ op.arg = KEY_UP
    /\ UI.CurrentSelection = NumberOfLabels - 1
    /\ UI.Flashing
    /\ UI.Color = 1
    /\ UI.BPM = 121 * Scale

\* the keys the input pipe acts on
RoutedKeys == {KEY_UP, KEY_DOWN, KEY_LEFT, KEY_RIGHT} \cup EnterKeys

\* C20: the no-input sentinel and every key other than Up, Down, Left, Right
\* and Enter (the quit key and the resize pseudo-key among them) leave every
\* field unchanged; the sentinel comes back to the caller as a value no real
\* key comes back as.
C20_OtherKeysChangeNothing ==
    /\ [][op'.name = "Keyboard" /\ op'.arg \notin RoutedKeys => UI' = UI]_vars
    /\ [](/\ KeyboardResult(ERR) = ERR
          /\ \A k \in Keys \ {ERR} : KeyboardResult(k) # KeyboardResult(ERR))

\* C20 witness: the resize pseudo-key has been routed on a state whose fields
\* are away from their initial values.
C20_Witness ==
    /\ op.name = "Keyboard"
    /\ op.arg = KEY_RESIZE
    /\ UI.CurrentSelection = VISUALIZATION
    /\ UI.VisualizationType = MaxVisualizations
    /\ UI.Flashing

\* C21: the quit key 'q', and no other key, makes the running flag false;
\* the Draw and the Refresh of that tick are still made, in this order, and
\* then the loop has ended: it reads no further input and makes no further
\* step.  (main is sequential: the step that is due is the next one made.)
C21_QuitIsCooperative ==
    /\ [][pc = "input" /\ op'.name = "HandleInput" =>
             /\ Running' = (Running /\ op'.arg # KEY_Q)
             /\ pc' = "draw"]_vars
    /\ [][Running /\ ~Running' =>
             pc = "input" /\ op'.name = "HandleInput" /\ op'.arg = KEY_Q]_vars
    /\ [][~Running =>
             /\ pc = "draw" => pc' = "refresh" /\ op'.name = "Draw"
             /\ pc = "refresh" => pc' = "done"
             /\ pc # "done"]_vars
    /\ [](~Running => pc # "input")
    /\ [](pc = "done" => ~Running /\ op.name = "Draw")

\* C21 witness: the loop has ended after the quit key was read at 230 ms,
\* with the Draw of that tick made.
C21_Witness ==
    /\ pc = "done"
    /\ ~Running
    /\ op.name = "Draw"
    /\ now = 230
    /\ nKeys = 2

\* C22 (as stated): the render step never mutates the UserInterface:
\* PrintUI, with every GetLabel(index) call it makes, leaves the object
\* exactly as it was before the call.
C22_RenderLeavesStateUnchanged ==
    [][op'.name = "PrintUI" => UI' = UI]_vars

\* C23: beats are anchored to FirstTick.  After the first invocation
\* FlashCounter is at least 1; only DrawFlash changes the timing machine; a
\* DrawFlash that resets restarts the count at 1 with FirstTick = now, and
\* one that does not keeps both; from there it adds exactly 1 when it
\* activates the flash and 0 when it does not, and it activates (raising the
\* counter from k to k + 1) exactly when now - FirstTick is strictly greater
\* than k * MillisPerBeat.  An activation never moves FirstTick.
C23_BeatsAnchoredToFirstTick ==
    /\ [](drawn # <<>> => VOut.FlashCounter >= 1)
    /\ [][pc # "draw" => VOut' = VOut]_vars
    /\ [][pc = "draw" =>
            LET resets == hash(UI) # VOut.UI_Hash \/ ~UI.Flashing
                k == IF resets THEN 1 ELSE VOut.FlashCounter
                first == IF resets THEN now ELSE VOut.FirstTick
            IN  /\ op'.name = "Draw"
                /\ op'.reset = resets
                /\ VOut'.FirstTick = first
                /\ VOut'.FlashCounter \in {k, k + 1}
                /\ VOut'.FlashCounter = k + 1 <=> op'.on
                /\ op'.on <=> now - first > k * op'.MillisPerBeat]_vars

\* the third beat, 430 ms after the anchor and 200 ms after the second: the
\* ticks came at 230 and 430, the beats count from FirstTick = 0
C23_Witness ==
    /\ op.name = "Draw" /\ pc = "refresh"
    /\ op.on /\ ~op.reset /\ op.wasCounter = 2
    /\ VOut.FlashCounter = 3 /\ VOut.FirstTick = 0 /\ now = 430

\* C24: minimum on-duration.  The flash goes from on to off only in a
\* DrawFlash at which now - TickTimer is strictly greater than the pulse
\* width; a flash that is on and whose pulse width has not elapsed is still on
\* after the invocation, whether or not the invocation resets; TickTimer is
\* set (to now) by an activation only, never by a reset.
C24_MinimumOnDuration ==
    /\ [][VOut.FlashState /\ ~VOut'.FlashState =>
            /\ pc = "draw" /\ op'.name = "Draw"
            /\ now - VOut.TickTimer > PulseWidth(op'.MillisPerBeat)]_vars
    /\ [][pc = "draw" /\ VOut.FlashState
            /\ now - VOut.TickTimer <= PulseWidth(op'.MillisPerBeat)
            => VOut'.FlashState]_vars
    /\ [][VOut'.TickTimer # VOut.TickTimer =>
            /\ pc = "draw" /\ op'.on
            /\ VOut'.TickTimer = now /\ VOut'.FlashState]_vars

\* a key event changed a field while the flash was on: the DrawFlash 30 ms
\* after the activation resets, and the flash stays on
C24_Witness ==
    /\ op.name = "Draw" /\ pc = "refresh"
    /\ op.reset /\ op.changed /\ op.wasOn /\ ~op.on /\ ~op.off
    /\ op.DiffTick = 30
    /\ VOut.FlashState /\ VOut.FirstTick = now /\ VOut.FlashCounter = 1

\* C25: while Flashing is false no activation happens.  Every DrawFlash with
\* Flashing = false ends with FlashCounter = 1 and FirstTick = now, and does
\* not execute the flash-on step (the flash is not switched on, TickTimer and
\* LastTick keep their values).  The first DrawFlash that sees Flashing =
\* true after one that saw it false resets as well and does not activate;
\* FirstTick never moves backward and every activation comes strictly more
\* than MillisPerBeat after FirstTick: the first activation after re-enabling
\* comes more than a full beat after the first invocation with Flashing true.
C25_NoActivationWhileNotFlashing ==
    /\ [][pc = "draw" /\ ~UI.Flashing =>
            /\ op'.name = "Draw" /\ ~op'.on
            /\ VOut'.FlashCounter = 1 /\ VOut'.FirstTick = now
            /\ VOut'.TickTimer = VOut.TickTimer
            /\ VOut'.LastTick = VOut.LastTick
            /\ VOut.FlashState \/ ~VOut'.FlashState]_vars
    /\ [][pc = "draw" /\ UI.Flashing /\ drawn # <<>> /\ ~drawn[1].Flashing =>
            /\ ~op'.on
            /\ VOut'.FlashCounter = 1 /\ VOut'.FirstTick = now]_vars
    /\ [][VOut'.FirstTick >= VOut.FirstTick]_vars
    /\ [][pc = "draw" /\ op'.on =>
            /\ UI.Flashing
            /\ now - VOut'.FirstTick > op'.MillisPerBeat]_vars

\* Flashing is false and no field has changed: the DrawFlash at 430 ms, long
\* after a beat would have been due, resets again and leaves the flash off
C25_Witness ==
    /\ op.name = "Draw" /\ pc = "refresh"
    /\ ~UI.Flashing /\ ~op.changed /\ op.reset /\ ~op.on
    /\ now = 430 /\ op.DiffTick = 430
    /\ VOut.FirstTick = 430 /\ VOut.FlashCounter = 1 /\ ~VOut.FlashState

\* C26 (as stated): on and off transitions alternate.  With Flashing enabled
\* and the fingerprint unchanged, a DrawFlash that executes the flash-on step
\* finds the flash off, or has executed the flash-off step itself: between
\* two consecutive flash-on steps there is a flash-off step.
C26_OnAndOffAlternate ==
    [][pc = "draw" /\ UI.Flashing /\ hash(UI) = VOut.UI_Hash /\ op'.on =>
          ~VOut.FlashState \/ op'.off]_vars

\* C26 (amended): with Flashing enabled and the fingerprint unchanged, a
\* flash-on step that comes more than the pulse width after the previous one
\* has a flash-off step before it (in the same invocation at the latest);
\* a flash-on step with no flash-off step since the previous one comes within
\* the pulse width of it, at an invocation where the counter is behind the
\* elapsed beats.
C26_OnAndOffAlternateBeyondPulse ==
    /\ [][pc = "draw" /\ UI.Flashing /\ hash(UI) = VOut.UI_Hash /\ op'.on
            /\ now - VOut.TickTimer > PulseWidth(op'.MillisPerBeat)
            => ~VOut.FlashState \/ op'.off]_vars
    /\ [][pc = "draw" /\ UI.Flashing /\ hash(UI) = VOut.UI_Hash /\ op'.on
            /\ VOut.FlashState /\ ~op'.off
            => /\ now - VOut.TickTimer <= PulseWidth(op'.MillisPerBeat)
               /\ VOut.TickTimer - VOut.FirstTick
                      > op'.MillisPerBeat * (VOut.FlashCounter - 1)
               /\ now - VOut.FirstTick
                      > op'.MillisPerBeat * VOut.FlashCounter]_vars

\* the beat at 430 ms, 200 ms after the one at 230 ms: the flash, still on, is
\* switched off and on again by the same invocation
C26_Witness ==
    /\ op.name = "Draw" /\ pc = "refresh"
    /\ UI.Flashing /\ ~op.reset /\ op.wasOn /\ op.off /\ op.on
    /\ op.DiffTick = 200 /\ now = 430 /\ VOut.FirstTick = 0
    /\ VOut.FlashState /\ VOut.FlashCounter = 3

\* C27: a forced redraw resets the beat phase.  An UpdateVisual called with
\* ForceRedraw set on a drawer that has a visual output ends with FirstTick =
\* now and FlashCounter = 1 and does not activate the flash, whether or not a
\* field has changed since the previous call, and its stored fingerprint
\* is the fingerprint of the fields afterwards; when no field has changed,
\* the fingerprint it hands to DrawFlash differs from that of the fields.
C27_ForcedRedrawResetsPhase ==
    [][op'.name = "UpdateVisual" /\ Drw.ForceRedraw /\ Drw.m_VOut # nullptr =>
          /\ VOut'.FirstTick = now
          /\ VOut'.FlashCounter = 1
          /\ VOut'.UI_Hash = hash(UI)
          /\ VOut'.TickTimer = VOut.TickTimer
          /\ op'.reset /\ ~op'.on
          /\ VOut.UI_Hash = hash(UI) =>
                 TriggerUIRedraw(VOut.UI_Hash) # hash(UI)]_vars

\* after a resize event, with the second beat passed and no field changed
\* since the previous call, UpdateVisual starts the count again
C27_Witness ==
    /\ op.name = "UpdateVisual" /\ pc = "input"
    /\ Drw.ForceRedraw /\ Drw.m_VOut # nullptr
    /\ UI.Flashing /\ ~op.changed /\ op.reset /\ op.wasCounter = 3
    /\ now = 430 /\ VOut.FirstTick = 430 /\ VOut.FlashCounter = 1
    /\ VOut.UI_Hash = hash(UI)

\* C28 (as stated): UpdateVisual never uses a visual output that does not
\* exist.  On a drawer whose m_VOut is null (CreateVisualWindow made nothing:
\* the orientation is not North) UpdateVisual is a no-op, the forced-redraw
\* flag set or not: it returns and leaves every object as it was.
C28_UpdateVisualWithoutVisualIsNoOp ==
    [][op'.name = "UpdateVisual" /\ Drw.m_VOut = nullptr =>
          /\ pc' = "input"
          /\ UI' = UI /\ VOut' = VOut /\ Drw' = Drw]_vars

=============================================================================
